---- MODULE Spec2Model ----
(***************************************************************************)
(* A model of package set (src/set.go): the generic Set[T], a struct that  *)
(* holds a Go map[T]bool, and its operations.  T is instantiated with int. *)
(* A Go map value is a reference, so the model keeps a heap of maps and a  *)
(* Set struct is the record [m |-> address].  Every method has a value     *)
(* receiver: the callee works on a copy of the struct.                     *)
(***************************************************************************)
EXTENDS Integers, Sequences, FiniteSets, TLC

\* Bounds of the model: the element values are Zero..MaxVal and argument
\* lists hold at most MaxLen values.
MaxVal == 2
MaxLen == 2

\* The zero value of T (T = int): what make([]T, n) fills a slice with.
Zero == 0

Values == Zero..MaxVal

\* The argument lists values ...T of Of, Append and Delete.
Seqs == UNION {[1..n -> Values] : n \in 0..MaxLen}

Range(q) == {q[i] : i \in DOMAIN q}

VARIABLES
    heap,    \* address -> Go map (a function from its keys to BOOLEAN)
    s,       \* the Set struct held by the caller's variable s
    t,       \* the caller's variable t: Nil until t := s
    lastOp,  \* the last call made
    recv,    \* the variable the last call was made through
    args,    \* the values ...T of the last Of, Append or Delete
    data,    \* the JSON text MarshalJSON returned or UnmarshalJSON was given
    ret,     \* the slice the last Slice returned
    err      \* the error the last UnmarshalJSON returned

vars == <<heap, s, t, lastOp, recv, args, data, ret, err>>

----------------------------------------------------------------------------
(* Go's built-in map operations.                                           *)

\* make(map[T]bool)
EmptyMap == [k \in {} |-> TRUE]

\* m[k] = v
MapSet(m, k, v) == [x \in DOMAIN m \cup {k} |-> IF x = k THEN v ELSE m[x]]

\* delete(m, k): a no-op when k is absent
MapDelete(m, k) == [x \in DOMAIN m \ {k} |-> m[x]]

\* m[k]: the zero value of bool when k is absent
MapIndex(m, k) == IF k \in DOMAIN m THEN m[k] ELSE FALSE

\* The heap before anything is allocated.
EmptyHeap == [a \in {} |-> EmptyMap]

\* The address a fresh allocation gets.
NewAddr(h) == CHOOSE a \in 1..(Cardinality(DOMAIN h) + 1) : a \notin DOMAIN h

\* h with a fresh map allocated at address a.
Alloc(h, a) == [x \in DOMAIN h \cup {a} |-> IF x = a THEN EmptyMap ELSE h[x]]

\* The garbage collector: only the maps a live struct refers to remain.
Collect(h, roots) == [a \in DOMAIN h \cap roots |-> h[a]]

\* The caller's variable before t := s.
Nil == [m |-> 0]

----------------------------------------------------------------------------
(* The methods of Set[T].  h is the heap at the call, self the callee's    *)
(* copy of the receiver struct.  Len and Append are SetLen and SetAppend   *)
(* here: Sequences defines those two names.                                *)

\* func Empty[T]() Set[T]: a struct over a freshly made map.
Empty(h) ==
    LET a == NewAddr(h)
    IN  [heap |-> Alloc(h, a), set |-> [m |-> a]]

\* func (s Set[T]) Len() int
SetLen(h, self) == Cardinality(DOMAIN h[self.m])

\* func (s Set[T]) Contains(val T) bool
Contains(h, self, val) == MapIndex(h[self.m], val)

\* Append as it would be with the loop starting at the second value.
SetAppendSkipsFirst(h, self, values) ==
    IF values = <<>> THEN h
    ELSE [h EXCEPT ![self.m] =
             [x \in DOMAIN @ \cup Range(Tail(values)) |-> TRUE]]

\* Append as it would be storing false: s.m[v] = false.
SetAppendStoresFalse(h, self, values) ==
    [h EXCEPT ![self.m] =
        [x \in DOMAIN @ \cup Range(values) |->
            IF x \in Range(values) THEN FALSE ELSE @[x]]]

\* func (s Set[T]) Append(values ...T): s.m[v] = true for each v in turn.
RECURSIVE SetAppend(_, _, _)
SetAppend(h, self, values) ==
    IF values = <<>> THEN h
    ELSE SetAppend([h EXCEPT ![self.m] = MapSet(@, Head(values), TRUE)],
                self, Tail(values))

\* Delete as it would be returning after the first value.
DeleteOnlyFirst(h, self, values) ==
    IF values = <<>> THEN h
    ELSE [h EXCEPT ![self.m] = MapDelete(@, Head(values))]

\* func (s Set[T]) Delete(values ...T): delete(s.m, v) for each v in turn.
RECURSIVE Delete(_, _, _)
Delete(h, self, values) ==
    IF values = <<>> THEN h
    ELSE Delete([h EXCEPT ![self.m] = MapDelete(@, Head(values))],
                self, Tail(values))

\* Of as it would be without its call of Append.
OfWithoutAppend(h, values) == Empty(h)

\* func Of[T](values ...T) Set[T]
Of(h, values) ==
    LET e == Empty(h)
    IN  [heap |-> SetAppend(e.heap, e.set, values), set |-> e.set]

\* func (s Set[T]) Clear(): s.m = make(map[T]bool) assigns the field of the
\* callee's copy of the struct.  The result holds the heap after the call and
\* that copy, which goes out of scope on return.
Clear(h, self) ==
    LET a == NewAddr(h)
    IN  [heap |-> Alloc(h, a), self |-> [self EXCEPT !.m = a]]

\* The orders in which range may visit the keys of a map.
Perms(S) == {p \in [1..Cardinality(S) -> S] : Range(p) = S}

\* make([]T, n): n zero values.
Zeros(n) == [i \in 1..n |-> Zero]

\* func (s Set[T]) Slice() []T: the slice is made with LENGTH len(s.m) and
\* every key is then appended to it, in the map's iteration order.
Slice(h, self) ==
    {Zeros(SetLen(h, self)) \o p : p \in Perms(DOMAIN h[self.m])}

----------------------------------------------------------------------------
(* encoding/json on []int.  A JSON text is the sequence of its tokens.     *)

\* json.Marshal of a non-nil []int: "[" v1 "," v2 ... "]"
\* The JSON text of an int: its decimal digits.
Digits == [v \in Values |-> ToString(v)]

RECURSIVE Elems(_)
Elems(q) ==
    IF q = <<>> THEN <<>>
    ELSE IF Len(q) = 1 THEN <<Digits[Head(q)]>>
    ELSE <<Digits[Head(q)], ",">> \o Elems(Tail(q))

JSONMarshal(q) == <<"[">> \o Elems(q) \o <<"]">>

\* The tokens that are the text of an int, and the int each is the text of.
NumberTokens == {Digits[v] : v \in Values}
NumberOf == [tok \in NumberTokens |-> CHOOSE v \in Values : Digits[v] = tok]

IsNumber(tok) == tok \in NumberTokens
Number(tok) == NumberOf[tok]

\* The elements of an array from token i on, a value being due at i.
RECURSIVE ParseElems(_, _, _)
ParseElems(d, i, acc) ==
    IF i + 1 > Len(d) \/ ~IsNumber(d[i]) THEN [ok |-> FALSE, values |-> <<>>]
    ELSE LET got == Append(acc, Number(d[i]))
         IN  IF d[i + 1] = "]"
             THEN [ok |-> i + 1 = Len(d), values |-> IF i + 1 = Len(d) THEN got ELSE <<>>]
             ELSE IF d[i + 1] = ","
             THEN ParseElems(d, i + 2, got)
             ELSE [ok |-> FALSE, values |-> <<>>]

\* json.Unmarshal(data, &values) for values []int: ok is err == nil.
JSONUnmarshal(d) ==
    IF Len(d) < 2 \/ d[1] # "[" THEN [ok |-> FALSE, values |-> <<>>]
    ELSE IF d = <<"[", "]">> THEN [ok |-> TRUE, values |-> <<>>]
    ELSE ParseElems(d, 2, <<>>)

\* func (s Set[T]) MarshalJSON() ([]byte, error): json.Marshal(s.Slice())
MarshalJSON(h, self) == {JSONMarshal(q) : q \in Slice(h, self)}

\* func (s Set[T]) UnmarshalJSON(data []byte) error: s.Clear() is called on a
\* copy of s, so the s of this method still refers to the map it came with.
UnmarshalJSON(h, self, d) ==
    LET c == Clear(h, self)
        p == JSONUnmarshal(d)
    IN  IF ~p.ok
        THEN [heap |-> c.heap, err |-> "error"]
        ELSE [heap |-> SetAppend(c.heap, self, p.values), err |-> "nil"]

\* The assignment as it would be if it copied the map as well.
CopyDeep(h, src) ==
    LET a == NewAddr(h)
    IN  [heap |-> [x \in DOMAIN h \cup {a} |-> IF x = a THEN h[src.m] ELSE h[x]],
         set |-> [m |-> a]]

\* t := s, Go's assignment of a struct value: the field m, a reference to
\* the map, is copied and the map is not.
Copy(h, src) == [heap |-> h, set |-> [m |-> src.m]]

----------------------------------------------------------------------------
(* The caller: one call per step, through the variable s or through t.     *)

Handle(r) == IF r = "s" THEN s ELSE t

\* The variables a call can be made through.
Live == {r \in {"s", "t"} : Handle(r) # Nil}

\* JSON texts given to UnmarshalJSON: the arrays of at most MaxLen values,
\* and the malformed texts that are an array of at most one value cut before
\* its closing bracket, as "[1" is.
Cut(d) == SubSeq(d, 1, Len(d) - 1)
JSONInputs ==
    {JSONMarshal(q) : q \in Seqs}
        \cup {Cut(JSONMarshal(q)) : q \in {x \in Seqs : Len(x) <= 1}}

NoArgs == <<>>
NoData == <<>>

\* s := Of(values...)
Init ==
    \E values \in Seqs :
        LET o == Of(EmptyHeap, values)
        IN  /\ heap = o.heap
            /\ s = o.set
            /\ t = Nil
            /\ lastOp = "Of"
            /\ recv = "s"
            /\ args = values
            /\ data = NoData
            /\ ret = <<>>
            /\ err = "nil"

\* t := s
CopyStep ==
    /\ t = Nil
    /\ LET c == Copy(heap, s)
       IN  /\ t' = c.set
           /\ heap' = Collect(c.heap, {s.m, c.set.m})
    /\ lastOp' = "Copy"
    /\ recv' = "t"
    /\ args' = NoArgs
    /\ data' = NoData
    /\ ret' = <<>>
    /\ err' = "nil"
    /\ UNCHANGED s

\* r.Append(values...)
AppendStep(r, values) ==
    /\ r \in Live
    /\ heap' = SetAppend(heap, Handle(r), values)
    /\ lastOp' = "Append"
    /\ recv' = r
    /\ args' = values
    /\ data' = NoData
    /\ ret' = <<>>
    /\ err' = "nil"
    /\ UNCHANGED <<s, t>>

\* r.Delete(values...)
DeleteStep(r, values) ==
    /\ r \in Live
    /\ heap' = Delete(heap, Handle(r), values)
    /\ lastOp' = "Delete"
    /\ recv' = r
    /\ args' = values
    /\ data' = NoData
    /\ ret' = <<>>
    /\ err' = "nil"
    /\ UNCHANGED <<s, t>>

\* r.Clear(): the receiver is passed by value, so the caller's struct is the
\* one it was; the map the callee made is garbage once it returns.
ClearStep(r) ==
    /\ r \in Live
    /\ heap' = Collect(Clear(heap, Handle(r)).heap, {s.m, t.m})
    /\ lastOp' = "Clear"
    /\ recv' = r
    /\ args' = NoArgs
    /\ data' = NoData
    /\ ret' = <<>>
    /\ err' = "nil"
    /\ UNCHANGED <<s, t>>

\* ret = r.Slice()
SliceStep(r) ==
    /\ r \in Live
    /\ ret' \in Slice(heap, Handle(r))
    /\ lastOp' = "Slice"
    /\ recv' = r
    /\ args' = NoArgs
    /\ data' = NoData
    /\ err' = "nil"
    /\ UNCHANGED <<heap, s, t>>

\* data, _ = r.MarshalJSON()
MarshalStep(r) ==
    /\ r \in Live
    /\ data' \in MarshalJSON(heap, Handle(r))
    /\ lastOp' = "MarshalJSON"
    /\ recv' = r
    /\ args' = NoArgs
    /\ ret' = <<>>
    /\ err' = "nil"
    /\ UNCHANGED <<heap, s, t>>

\* err = r.UnmarshalJSON(d)
UnmarshalStep(r, d) ==
    /\ r \in Live
    /\ LET u == UnmarshalJSON(heap, Handle(r), d)
       IN  /\ heap' = Collect(u.heap, {s.m, t.m})
           /\ err' = u.err
    /\ lastOp' = "UnmarshalJSON"
    /\ recv' = r
    /\ args' = NoArgs
    /\ data' = d
    /\ ret' = <<>>
    /\ UNCHANGED <<s, t>>

\* The texts a call of UnmarshalJSON is given: an input, or what the call of
\* MarshalJSON before it returned.
Texts == JSONInputs \cup (IF lastOp = "MarshalJSON" THEN {data} ELSE {})

Next ==
    \/ CopyStep
    \/ \E r \in {"s", "t"}, values \in Seqs : AppendStep(r, values)
    \/ \E r \in {"s", "t"}, values \in Seqs : DeleteStep(r, values)
    \/ \E r \in {"s", "t"} : ClearStep(r)
    \/ \E r \in {"s", "t"} : SliceStep(r)
    \/ \E r \in {"s", "t"} : MarshalStep(r)
    \/ \E r \in {"s", "t"}, d \in Texts : UnmarshalStep(r, d)

Spec == Init /\ [][Next]_vars

----------------------------------------------------------------------------
TypeOK ==
    /\ s.m \in DOMAIN heap
    /\ t = Nil \/ t.m \in DOMAIN heap
    /\ \A a \in DOMAIN heap : DOMAIN heap[a] \subseteq Values

----------------------------------------------------------------------------
(* The properties.                                                         *)

\* The values r.Contains reports.
Members(h, self) == {x \in Values : Contains(h, self, x)}

\* The receiver of the last call.
Self == Handle(recv)

\* C1: after Clear the set is empty: Len() is 0 and Contains(x) is false for
\* every x.
C1_ClearEmpties ==
    lastOp = "Clear" =>
        /\ SetLen(heap, Self) = 0
        /\ \A x \in Values : ~Contains(heap, Self, x)

\* C2: after a successful UnmarshalJSON(data) the members are exactly the
\* values parsed from data.
C2_UnmarshalReplaces ==
    (lastOp = "UnmarshalJSON" /\ err = "nil") =>
        Members(heap, Self) = Range(JSONUnmarshal(data).values)

\* C3: UnmarshalJSON of a text that is no JSON array of T returns an error
\* and leaves the set empty.
C3_UnmarshalFailureEmpties ==
    (lastOp = "UnmarshalJSON" /\ ~JSONUnmarshal(data).ok) =>
        /\ err = "error"
        /\ SetLen(heap, Self) = 0

\* C4: Slice returns exactly the elements of the set, each once: as many
\* entries as Len(), every entry a member, every member an entry.
C4_SliceExact ==
    lastOp = "Slice" =>
        /\ Len(ret) = SetLen(heap, Self)
        /\ \A i \in DOMAIN ret : Contains(heap, Self, ret[i])
        /\ Range(ret) = Members(heap, Self)

\* C5: UnmarshalJSON of what MarshalJSON returned yields the membership the
\* marshalled set had.
C5_RoundTrip ==
    [][(lastOp = "MarshalJSON" /\ lastOp' = "UnmarshalJSON" /\ data' = data) =>
          /\ err' = "nil"
          /\ Members(heap', Handle(recv')) = Members(heap, Handle(recv))
          /\ SetLen(heap', Handle(recv')) = SetLen(heap, Handle(recv))]_vars

\* C6: Of(v...) has as many elements as v has distinct values and contains
\* exactly the values occurring in v.
C6_Of ==
    lastOp = "Of" =>
        /\ SetLen(heap, s) = Cardinality(Range(args))
        /\ \A x \in Values : Contains(heap, s, x) <=> x \in Range(args)

\* Of was given a value twice and a value of T not at all.
C6_Witness ==
    /\ lastOp = "Of"
    /\ Len(args) > Cardinality(Range(args))
    /\ SetLen(heap, s) = Cardinality(Range(args))
    /\ \E x \in Values : x \notin Range(args) /\ ~Contains(heap, s, x)

\* C7: Append(vs...) makes the membership the prior membership united with
\* vs: every x of vs is contained, Len() is unchanged when every x of vs was
\* already present, and no other value's membership changes.
C7_Append ==
    [][lastOp' = "Append" =>
          LET self == Handle(recv')
              before == Members(heap, self)
              after == Members(heap', self)
          IN  /\ after = before \cup Range(args')
              /\ \A x \in Range(args') : Contains(heap', self, x)
              /\ Range(args') \subseteq before =>
                     SetLen(heap', self) = SetLen(heap, self)
              /\ SetLen(heap', self) = Cardinality(before \cup Range(args'))
              /\ \A x \in Values \ Range(args') :
                     Contains(heap', self, x) = Contains(heap, self, x)]_vars

\* Append was given a value twice, to a set that holds other values too.
C7_Witness ==
    /\ lastOp = "Append"
    /\ Len(args) > Cardinality(Range(args))
    /\ \A x \in Range(args) : Contains(heap, Self, x)
    /\ SetLen(heap, Self) > Cardinality(Range(args))

\* C8: Delete(vs...) makes the membership the prior membership minus vs: no
\* x of vs is contained, Len() is unchanged when no x of vs was present, and
\* no other value's membership changes.
C8_Delete ==
    [][lastOp' = "Delete" =>
          LET self == Handle(recv')
              before == Members(heap, self)
              after == Members(heap', self)
          IN  /\ after = before \ Range(args')
              /\ \A x \in Range(args') : ~Contains(heap', self, x)
              /\ Range(args') \cap before = {} =>
                     SetLen(heap', self) = SetLen(heap, self)
              /\ SetLen(heap', self) = Cardinality(before \ Range(args'))
              /\ \A x \in Values \ Range(args') :
                     Contains(heap', self, x) = Contains(heap, self, x)]_vars

\* Delete was given two different values, from a set that keeps a value.
C8_Witness ==
    /\ lastOp = "Delete"
    /\ Cardinality(Range(args)) > 1
    /\ \A x \in Range(args) : ~Contains(heap, Self, x)
    /\ SetLen(heap, Self) > 0

\* C9: once t := s, the sets s and t have the same members and the same
\* Len() after every call made through either.
C9_CopiesShare ==
    t # Nil =>
        /\ Members(heap, s) = Members(heap, t)
        /\ SetLen(heap, s) = SetLen(heap, t)

\* A value appended through t is contained in s.
C9_Witness ==
    /\ t # Nil
    /\ lastOp = "Append"
    /\ recv = "t"
    /\ args # <<>>
    /\ \A x \in Range(args) : Contains(heap, s, x)
    /\ SetLen(heap, s) = SetLen(heap, t)

\* No key of the map holds false: Contains(x) is x being a key, and Len()
\* counts the values Contains reports.
NoTombstone ==
    \A r \in Live :
        /\ \A k \in DOMAIN heap[Handle(r).m] : heap[Handle(r).m][k] = TRUE
        /\ \A x \in Values :
               Contains(heap, Handle(r), x) <=> x \in DOMAIN heap[Handle(r).m]
        /\ SetLen(heap, Handle(r)) = Cardinality(Members(heap, Handle(r)))

\* The values the last call inserted.
Inserted ==
    IF lastOp \in {"Of", "Append"} THEN Range(args)
    ELSE IF lastOp = "UnmarshalJSON" THEN Range(JSONUnmarshal(data).values)
    ELSE {}

\* A value is contained after a call only if it was before or the call
\* inserted it.
GainsOnlyInserted ==
    heap' # heap =>
        \A r \in Live :
            Members(heap', Handle(r)) \subseteq
                Members(heap, Handle(r)) \cup Inserted'

\* C10: in every reachable state no key is stored with a false flag:
\* Contains(x) holds exactly for the keys of the map, Len() is the number of
\* values Contains reports, and a value never inserted is not contained.
C10_NoTombstone ==
    /\ [](NoTombstone /\ (lastOp = "Of" => Members(heap, s) \subseteq Inserted))
    /\ [][GainsOnlyInserted]_vars

\* After a successful UnmarshalJSON the set has members and a value of T
\* that is none: a key present and a key absent.
C10_Witness ==
    /\ lastOp = "UnmarshalJSON"
    /\ err = "nil"
    /\ SetLen(heap, Self) > 0
    /\ \E x \in Values : x \notin DOMAIN heap[Self.m] /\ ~Contains(heap, Self, x)

====
